---------------------------- MODULE Spec2Model ----------------------------
(***************************************************************************)
(* A model of the virtual-memory emulator of cs143b/Project3:              *)
(*   VirtualAddress            (virtual_address.cpp)                        *)
(*   BitMap                    (bit_map.cpp)                                *)
(*   TranslationLookAsideBuffer (tlb.cpp)                                   *)
(*   VirtualMemorySystem       (vm_system.cpp), driven as main.cpp's start *)
(*                                                                         *)
(* Scaling.  The address layout and FRAME_SIZE keep the values of the code.*)
(* The bitmap is WIDTH rows of WIDTH bits (32 x 32 in the code), so        *)
(* physical memory has WIDTH*WIDTH frames.  physical_memory is kept as the *)
(* finite map of its non-zero words (every other word holds the fill value *)
(* 0 written by init_physical_memory).                                     *)
(***************************************************************************)
EXTENDS Integers, Sequences, FiniteSets, TLC

VARIABLES
    physical_memory,   \* VirtualMemorySystem::physical_memory (non-zero words)
    bit_map,           \* BitMap::array : row -> set of the bits that are 1
    cache,             \* TranslationLookAsideBuffer::cache : slot -> Entry
    use_tlb,           \* the use_tlb argument of the run (main.cpp start)
    phase,             \* position of the driver: "pt", "page", "run"
    fault,             \* "none", or how the process ended
    ub,                \* TRUE once an access outside an array has happened
    last,              \* the operation performed last and what it printed
    va,                \* VirtualAddress objects under test (SpecVA)
    recency            \* keys in order of last TLB access, oldest first (SpecTLB)

vars == <<physical_memory, bit_map, cache, use_tlb, phase, fault, ub, last,
          va, recency>>

---------------------------------------------------------------------------
(* Program constants.                                                      *)

FRAME_SIZE == 512
ADDRESS_BITS == 32
DISCARD_BITS == 4
SEGMENT_BITS == 9
PAGE_BITS == 10
OFFSET_BITS == 9
DEFAULT_CAPACITY == 4
READ_OP == 0
WRITE_OP == 1

(* Model bounds.                                                           *)

\* bits per bitmap row and number of rows (both 32 in the code)
WIDTH == 3
\* the recency counters of the TLB only ever decrease in unused slots;
\* TLB operations stop once a counter has reached -MaxLruDepth
MaxLruDepth == 5

BM_SIZE == WIDTH
N_FRAMES == BM_SIZE * WIDTH
PM_SIZE == FRAME_SIZE * N_FRAMES

---------------------------------------------------------------------------
(* C++ integer arithmetic: / and % truncate toward zero.                   *)

CDiv(a, b) == IF a >= 0 THEN a \div b ELSE -((-a) \div b)

CMod(a, b) == a - b * CDiv(a, b)

Min(S) == CHOOSE x \in S : \A y \in S : x <= y

---------------------------------------------------------------------------
(* VirtualAddress.  A bit string is a sequence of 0/1, most significant    *)
(* bit first, as std::bitset::to_string prints it.                         *)

\* std::bitset<32>{static_cast<unsigned long long>(addr)}.to_string():
\* the two's-complement pattern of the int32_t, most significant bit first.
to_string(addr) ==
    LET low31 == IF addr < 0 THEN (addr + 2^30) + 2^30 ELSE addr
    IN  [i \in 1..ADDRESS_BITS |->
            IF i = 1 THEN (IF addr < 0 THEN 1 ELSE 0)
                     ELSE (low31 \div (2^(ADDRESS_BITS - i))) % 2]

\* std::string::substr(pos, len)
substr(str, pos, len) == SubSeq(str, pos + 1, pos + len)

\* std::bitset<N>{slice}.to_ullong()
to_ullong(bits) ==
    LET n == Len(bits)
        value[k \in 0..n] == IF k = 0 THEN 0 ELSE 2 * value[k - 1] + bits[k]
    IN  value[n]

\* discard_bits dropping the low bits instead of the high ones
discard_bits_low(addr, discard) ==
    LET bits == to_string(addr)
    IN  SubSeq(bits, 1, Len(bits) - discard)

\* VirtualAddress::discard_bits : bits.substr(discard)
discard_bits(addr, discard) ==
    LET bits == to_string(addr)
    IN  SubSeq(bits, discard + 1, Len(bits))

\* the member `discarded`, initialised by the constructor
discarded(addr) == discard_bits(addr, DISCARD_BITS)

\* page_number taking its slice one column late
page_number_shifted(addr) ==
    to_ullong(substr(discarded(addr), SEGMENT_BITS + 1, PAGE_BITS))

segment_number(addr) == to_ullong(substr(discarded(addr), 0, SEGMENT_BITS))

page_number(addr) ==
    to_ullong(substr(discarded(addr), SEGMENT_BITS, PAGE_BITS))

offset(addr) ==
    to_ullong(substr(discarded(addr), SEGMENT_BITS + PAGE_BITS, OFFSET_BITS))

segment_and_page_number(addr) ==
    to_ullong(substr(discarded(addr), 0, SEGMENT_BITS + PAGE_BITS))

\* The object built by VirtualAddress{addr}, as its accessors show it.
VirtualAddress(addr) ==
    [raw |-> addr,
     s   |-> segment_number(addr),
     p   |-> page_number(addr),
     w   |-> offset(addr),
     sp  |-> segment_and_page_number(addr)]

\* The int32_t whose bit pattern is hi (4 bits), s (9), p (10), w (9).
MakeAddress(hi, s, p, w) ==
    LET low == s * 2^(PAGE_BITS + OFFSET_BITS) + p * 2^OFFSET_BITS + w
    IN  IF hi >= 8 THEN ((hi - 16) * 2^28) + low ELSE hi * 2^28 + low

---------------------------------------------------------------------------
(* Physical memory: int physical_memory[PM_SIZE].  A read outside the      *)
(* array is undefined behaviour; it yields the arbitrary value g unless    *)
(* the same word was written before.                                       *)

InPM(i) == 0 <= i /\ i < PM_SIZE

PMGet(pm, i, g) ==
    IF i \in DOMAIN pm THEN pm[i] ELSE IF InPM(i) THEN 0 ELSE g

\* physical_memory[i] = v.  A word written outside the array is kept in the
\* map too: where such a write does not end the process, a later read of
\* the same word finds the value written.
PMSet(pm, i, v) ==
    LET dom == IF v = 0 /\ InPM(i) THEN DOMAIN pm \ {i}
                                   ELSE DOMAIN pm \cup {i}
    IN  [j \in dom |-> IF j = i THEN v ELSE pm[j]]

\* init_physical_memory(0)
init_physical_memory == [j \in {} |-> 0]

get_page_table(pm, segment, page, g) ==
    LET pt_address == PMGet(pm, segment, g)
    IN  PMGet(pm, pt_address + page, g)

---------------------------------------------------------------------------
(* BitMap.  Results of the searches are records: kind "ok" with the        *)
(* position, or the exception thrown.                                      *)

InBitMap(index) == 0 <= index /\ index < BM_SIZE

\* BitMap::clear
BitMapClear == [i \in 0..(BM_SIZE - 1) |-> {}]

\* BitMap::check_bounds(int& index, int& bit)
check_bounds(index, bit) ==
    IF bit = WIDTH THEN <<index + 1, 0>> ELSE <<index, bit>>

\* array[index].test(bit); outside the array the read yields g
BitTest(bm, index, bit, g) ==
    IF InBitMap(index) THEN bit \in bm[index] ELSE g

\* BitMap::find_zero_starting_from
find_zero_starting_from(bm, index, bit) ==
    IF index >= BM_SIZE THEN [kind |-> "out_of_range"]
    ELSE
      LET b == IF bit = WIDTH THEN 0 ELSE bit
          zeros == {c \in (index..(BM_SIZE - 1)) \X (0..(WIDTH - 1)) :
                       /\ c[1] = index => c[2] >= b
                       /\ c[2] \notin bm[c[1]]}
      IN  IF zeros = {} THEN [kind |-> "MemoryException"]
          ELSE LET first == CHOOSE c \in zeros :
                              \A d \in zeros :
                                  c[1] * WIDTH + c[2] <= d[1] * WIDTH + d[2]
               IN  [kind |-> "ok", index |-> first[1], bit |-> first[2]]

\* find_first_zero searching from bit (0,0)
find_first_zero_from_origin(bm) == find_zero_starting_from(bm, 0, 0)

\* BitMap::find_first_zero
find_first_zero(bm) == find_zero_starting_from(bm, 0, 1)

\* find_consecutive_zeros entering its loop with bit = 2
find_consecutive_zeros_from_second_bit(bm, g) ==
    LET scan[index \in 0..(BM_SIZE + 1), bit \in 0..WIDTH] ==
          IF ~(index < BM_SIZE) THEN [kind |-> "MemoryException", ub |-> FALSE]
          ELSE CHOOSE r \in
            {IF first_pair.kind # "ok"
             THEN [kind |-> first_pair.kind, ub |-> FALSE]
             ELSE
               LET fs == check_bounds(first_pair.index, first_pair.bit + 1)
                   first == fs[1]
                   second == fs[2]
                   outside == ~InBitMap(first)
                   nxt == check_bounds(first, second + 1)
               IN  IF ~BitTest(bm, first, second, g)
                   THEN [kind |-> "ok", index |-> first_pair.index,
                         bit |-> first_pair.bit, ub |-> outside]
                   ELSE [scan[nxt[1], nxt[2]] EXCEPT !.ub = @ \/ outside]
             : first_pair \in {find_zero_starting_from(bm, index, bit)}} : TRUE
    IN  scan[0, 2]

\* BitMap::find_consecutive_zeros.  scan[index, bit] is the result of the
\* while loop entered with these values of index and bit; the field ub
\* records that array[first] was read outside the array.
\* (Here and below, `CHOOSE r \in {e(x) : x \in {v}} : TRUE` is e(v) with
\* v computed once.)
find_consecutive_zeros(bm, g) ==
    LET scan[index \in 0..(BM_SIZE + 1), bit \in 0..WIDTH] ==
          IF ~(index < BM_SIZE) THEN [kind |-> "MemoryException", ub |-> FALSE]
          ELSE CHOOSE r \in
            {IF first_pair.kind # "ok"
             THEN [kind |-> first_pair.kind, ub |-> FALSE]
             ELSE
               LET fs == check_bounds(first_pair.index, first_pair.bit + 1)
                   first == fs[1]
                   second == fs[2]
                   outside == ~InBitMap(first)
                   nxt == check_bounds(first, second + 1)
               IN  IF ~BitTest(bm, first, second, g)
                   THEN [kind |-> "ok", index |-> first_pair.index,
                         bit |-> first_pair.bit, ub |-> outside]
                   ELSE [scan[nxt[1], nxt[2]] EXCEPT !.ub = @ \/ outside]
             : first_pair \in {find_zero_starting_from(bm, index, bit)}} : TRUE
    IN  scan[0, 1]

\* BitMap::set(index, bit, true).  std::bitset::set throws out_of_range
\* for a position outside 0..WIDTH-1.  A write to a row outside the array
\* is undefined behaviour: the modelled rows keep their contents.
BitMapSet(bm, index, bit) ==
    LET ib == check_bounds(index, bit)
    IN  IF ib[2] \notin 0..(WIDTH - 1)
        THEN [bm |-> bm, ub |-> FALSE, fault |-> "out_of_range"]
        ELSE IF InBitMap(ib[1])
        THEN [bm |-> [bm EXCEPT ![ib[1]] = @ \cup {ib[2]}], ub |-> FALSE,
              fault |-> "none"]
        ELSE [bm |-> bm, ub |-> TRUE, fault |-> "none"]

---------------------------------------------------------------------------
(* TranslationLookAsideBuffer with the default capacity.                   *)

capacity == DEFAULT_CAPACITY

Slots == 0..(capacity - 1)

max_lru_value == capacity - 1

\* TranslationLookAsideBuffer::init_cache
init_cache == [i \in Slots |-> [lru_value |-> 0, sp |-> -1, f |-> -1]]

\* TranslationLookAsideBuffer::hit_index
hit_index(c, sp) ==
    IF \E i \in Slots : c[i].sp = sp
    THEN Min({i \in Slots : c[i].sp = sp})
    ELSE -1

\* TranslationLookAsideBuffer::find_index_with_value
find_index_with_value(c, value) ==
    IF \E i \in Slots : c[i].lru_value = value
    THEN Min({i \in Slots : c[i].lru_value = value})
    ELSE capacity

\* do_hit returning the key of the entry instead of its frame
do_hit_returning_key(c, sp, line) ==
    [cache |-> [i \in Slots |->
                   IF i = line THEN [c[i] EXCEPT !.lru_value = max_lru_value]
                   ELSE IF c[i].lru_value < c[line].lru_value
                        THEN [c[i] EXCEPT !.lru_value = @ - 1]
                        ELSE c[i]],
     f |-> c[line].sp]

\* do_hit returning the frame without touching any lru_value
do_hit_without_promotion(c, sp, line) ==
    [cache |-> c, f |-> c[line].f]

\* TranslationLookAsideBuffer::do_hit : the cache afterwards, and the frame
do_hit(c, sp, line) ==
    [cache |-> [i \in Slots |->
                   IF i = line THEN [c[i] EXCEPT !.lru_value = max_lru_value]
                   ELSE IF c[i].lru_value < c[line].lru_value
                        THEN [c[i] EXCEPT !.lru_value = @ - 1]
                        ELSE c[i]],
     f |-> c[line].f]

\* do_miss storing the entry in the slot after the chosen one as well
do_miss_in_two_slots(c, sp, frame) ==
    LET lowest_lru_index == find_index_with_value(c, 0)
    IN  [cache |-> [i \in Slots |->
                       IF i \in {lowest_lru_index, lowest_lru_index + 1}
                       THEN [lru_value |-> max_lru_value, sp |-> sp, f |-> frame]
                       ELSE [c[i] EXCEPT !.lru_value = @ - 1]],
         index |-> lowest_lru_index,
         ub |-> lowest_lru_index \notin Slots]

\* TranslationLookAsideBuffer::do_miss.  When no entry has lru_value 0,
\* find_index_with_value returns capacity and cache[capacity] is written:
\* an access outside the array (ub); the loop then decrements every slot.
do_miss(c, sp, frame) ==
    LET lowest_lru_index == find_index_with_value(c, 0)
    IN  [cache |-> [i \in Slots |->
                       IF i = lowest_lru_index
                       THEN [lru_value |-> max_lru_value, sp |-> sp, f |-> frame]
                       ELSE [c[i] EXCEPT !.lru_value = @ - 1]],
         index |-> lowest_lru_index,
         ub |-> lowest_lru_index \notin Slots]

---------------------------------------------------------------------------
(* VirtualMemorySystem.  Every operation is a function of the members it   *)
(* reads; g = [int, bit] are the values an access outside an array yields. *)
(* A result carries the members afterwards, what was printed (one element  *)
(* per insertion into std::cout), the return value, the number of          *)
(* recursive retries of write_no_tlb, the exception thrown ("none" when    *)
(* the call returned) and whether an access left an array.                 *)

\* the segments and pages named by the layout and action files
Segments == {0, 1}

Pages == {0, 1, 2}

\* the discarded bits and the offset of an address: <<hi, w>>
Variants == {<<0, 0>>, <<15, FRAME_SIZE - 1>>}

\* the addresses of the action file
Addresses ==
    {MakeAddress(v[1], s, p, v[2]) :
        v \in Variants, s \in Segments, p \in Pages}

\* the pages written by a run that fills physical memory by writes alone:
\* five pages of segment 0, which with its page table take every frame of
\* 3 x 3 but frame 0 and the last, and one page of segment 1
DemandPages(s) == IF s = 0 THEN 0..4 ELSE {0}

DemandAddresses ==
    UNION {{MakeAddress(0, s, p, 0) : p \in DemandPages(s)} : s \in Segments}

index_capacity == FRAME_SIZE * BM_SIZE

\* VirtualMemorySystem::get_frame_number
get_frame_number(physical_address) ==
    <<CDiv(physical_address, index_capacity),
      CMod(CDiv(physical_address, FRAME_SIZE), WIDTH)>>

\* whether get_page_table(segment, page) reads outside physical_memory
PageTableReadOutside(pm, segment, page, g) ==
    ~InPM(PMGet(pm, segment, g) + page)

\* allocate_new_page_table marking only the first of the table's frames
allocate_new_page_table_one_frame(pm, bm, segment, g) ==
    CHOOSE r \in
      {IF location.kind # "ok"
       THEN [pm |-> pm, bm |-> bm, fault |-> location.kind, ub |-> location.ub]
       ELSE
         LET page_table_address ==
                 location.index * index_capacity + location.bit * FRAME_SIZE
             s1 == BitMapSet(bm, location.index, location.bit)
         IN  IF PMGet(pm, segment, g.int) # 0
             THEN [pm |-> pm, bm |-> bm, fault |-> "MemoryException",
                   ub |-> location.ub]
             ELSE [pm |-> PMSet(pm, segment, page_table_address),
                   bm |-> s1.bm, fault |-> "none",
                   ub |-> location.ub \/ s1.ub]
       : location \in {find_consecutive_zeros(bm, g.bit)}} : TRUE

\* VirtualMemorySystem::allocate_new_page_table
allocate_new_page_table(pm, bm, segment, g) ==
    CHOOSE r \in
      {IF location.kind # "ok"
       THEN [pm |-> pm, bm |-> bm, fault |-> location.kind, ub |-> location.ub]
       ELSE
         LET page_table_address ==
                 location.index * index_capacity + location.bit * FRAME_SIZE
             s1 == BitMapSet(bm, location.index, location.bit)
             s2 == BitMapSet(s1.bm, location.index, location.bit + 1)
         IN  IF PMGet(pm, segment, g.int) # 0
             THEN [pm |-> pm, bm |-> bm, fault |-> "MemoryException",
                   ub |-> location.ub]
             ELSE IF page_table_address # -1
             THEN [pm |-> PMSet(pm, segment, page_table_address),
                   bm |-> s2.bm, fault |-> "none",
                   ub |-> location.ub \/ s1.ub \/ s2.ub]
             ELSE [pm |-> PMSet(pm, segment, page_table_address),
                   bm |-> bm, fault |-> "none", ub |-> location.ub]
       : location \in {find_consecutive_zeros(bm, g.bit)}} : TRUE

\* allocate_new_page storing the frame at segment + page, without the
\* page table's address
allocate_new_page_at_segment(pm, bm, segment, page, g) ==
    CHOOSE r \in
      {IF location.kind # "ok"
       THEN [pm |-> pm, bm |-> bm, fault |-> location.kind, ub |-> FALSE]
       ELSE
         LET next_free_address ==
                 location.index * index_capacity + location.bit * FRAME_SIZE
             page_start == segment + page
             s1 == BitMapSet(bm, location.index, location.bit)
         IN  [pm |-> PMSet(pm, page_start, next_free_address),
              bm |-> s1.bm, fault |-> "none",
              ub |-> s1.ub \/ ~InPM(page_start)]
       : location \in {find_first_zero(bm)}} : TRUE

\* allocate_new_page leaving the frame unmarked in the bitmap
allocate_new_page_unmarked(pm, bm, segment, page, g) ==
    CHOOSE r \in
      {IF location.kind # "ok"
       THEN [pm |-> pm, bm |-> bm, fault |-> location.kind, ub |-> FALSE]
       ELSE
         LET next_free_address ==
                 location.index * index_capacity + location.bit * FRAME_SIZE
             page_table_address == PMGet(pm, segment, g.int)
             page_start == page_table_address + page
         IN  [pm |-> PMSet(pm, page_start, next_free_address),
              bm |-> bm, fault |-> "none", ub |-> ~InPM(page_start)]
       : location \in {find_first_zero(bm)}} : TRUE

\* allocate_new_page storing the frame in the segment's own ST word
allocate_new_page_over_table(pm, bm, segment, page, g) ==
    CHOOSE r \in
      {IF location.kind # "ok"
       THEN [pm |-> pm, bm |-> bm, fault |-> location.kind, ub |-> FALSE]
       ELSE
         LET next_free_address ==
                 location.index * index_capacity + location.bit * FRAME_SIZE
             s1 == BitMapSet(bm, location.index, location.bit)
         IN  [pm |-> PMSet(pm, segment, next_free_address),
              bm |-> s1.bm, fault |-> "none", ub |-> s1.ub]
       : location \in {find_first_zero(bm)}} : TRUE

\* allocate_new_page marking the frame after the page's frame as well
allocate_new_page_two_frames(pm, bm, segment, page, g) ==
    CHOOSE r \in
      {IF location.kind # "ok"
       THEN [pm |-> pm, bm |-> bm, fault |-> location.kind, ub |-> FALSE]
       ELSE
         LET next_free_address ==
                 location.index * index_capacity + location.bit * FRAME_SIZE
             page_table_address == PMGet(pm, segment, g.int)
             page_start == page_table_address + page
             s1 == BitMapSet(bm, location.index, location.bit)
             s2 == BitMapSet(s1.bm, location.index, location.bit + 1)
         IN  [pm |-> PMSet(pm, page_start, next_free_address),
              bm |-> s2.bm, fault |-> "none",
              ub |-> s1.ub \/ s2.ub \/ ~InPM(page_start)]
       : location \in {find_first_zero(bm)}} : TRUE

\* VirtualMemorySystem::allocate_new_page
allocate_new_page(pm, bm, segment, page, g) ==
    CHOOSE r \in
      {IF location.kind # "ok"
       THEN [pm |-> pm, bm |-> bm, fault |-> location.kind, ub |-> FALSE]
       ELSE
         LET next_free_address ==
                 location.index * index_capacity + location.bit * FRAME_SIZE
             page_table_address == PMGet(pm, segment, g.int)
             page_start == page_table_address + page
             s1 == BitMapSet(bm, location.index, location.bit)
         IN  [pm |-> PMSet(pm, page_start, next_free_address),
              bm |-> s1.bm, fault |-> "none",
              ub |-> s1.ub \/ ~InPM(page_start)]
       : location \in {find_first_zero(bm)}} : TRUE

\* VirtualMemorySystem::write_no_tlb; retries counts the recursive calls
\* made so far for this write.
RECURSIVE write_no_tlb_from(_, _, _, _, _, _)
write_no_tlb_from(pm, bm, a, g, retries, ubSoFar) ==
    LET segment_table_entry == PMGet(pm, a.s, g.int)
        page_table_entry == get_page_table(pm, a.s, a.p, g.int)
        outside == ubSoFar \/ PageTableReadOutside(pm, a.s, a.p, g.int)
        base == [pm |-> pm, bm |-> bm, retries |-> retries, fault |-> "none",
                 ub |-> outside]
        \* return write_no_tlb(va) after the allocation with result n
        retry(n) ==
            IF n.fault # "none"
            THEN [pm |-> n.pm, bm |-> n.bm, retries |-> retries,
                  fault |-> n.fault, ub |-> outside \/ n.ub,
                  tokens |-> <<>>, valid |-> FALSE]
            ELSE write_no_tlb_from(n.pm, n.bm, a, g, retries + 1,
                                   outside \/ n.ub)
    IN  IF segment_table_entry = -1 \/ page_table_entry = -1
        THEN base @@ [tokens |-> <<"pf", " ">>, valid |-> FALSE]
        ELSE IF segment_table_entry = 0
        THEN CHOOSE r \in {retry(n) :
                             n \in {allocate_new_page_table(pm, bm, a.s, g)}} :
                        TRUE
        ELSE IF page_table_entry = 0
        THEN CHOOSE r \in {retry(n) :
                             n \in {allocate_new_page(pm, bm, a.s, a.p, g)}} :
                        TRUE
        ELSE base @@ [tokens |-> <<page_table_entry + a.w, " ">>,
                      valid |-> TRUE]

\* write_no_tlb taking only ST[s] = -1 as a page fault
RECURSIVE write_no_tlb_segment_fault_from(_, _, _, _, _, _)
write_no_tlb_segment_fault_from(pm, bm, a, g, retries, ubSoFar) ==
    LET segment_table_entry == PMGet(pm, a.s, g.int)
        page_table_entry == get_page_table(pm, a.s, a.p, g.int)
        outside == ubSoFar \/ PageTableReadOutside(pm, a.s, a.p, g.int)
        base == [pm |-> pm, bm |-> bm, retries |-> retries, fault |-> "none",
                 ub |-> outside]
        retry(n) ==
            IF n.fault # "none"
            THEN [pm |-> n.pm, bm |-> n.bm, retries |-> retries,
                  fault |-> n.fault, ub |-> outside \/ n.ub,
                  tokens |-> <<>>, valid |-> FALSE]
            ELSE write_no_tlb_segment_fault_from(n.pm, n.bm, a, g,
                                                 retries + 1, outside \/ n.ub)
    IN  IF segment_table_entry = -1
        THEN base @@ [tokens |-> <<"pf", " ">>, valid |-> FALSE]
        ELSE IF segment_table_entry = 0
        THEN CHOOSE r \in {retry(n) :
                             n \in {allocate_new_page_table(pm, bm, a.s, g)}} :
                        TRUE
        ELSE IF page_table_entry = 0
        THEN CHOOSE r \in {retry(n) :
                             n \in {allocate_new_page(pm, bm, a.s, a.p, g)}} :
                        TRUE
        ELSE base @@ [tokens |-> <<page_table_entry + a.w, " ">>,
                      valid |-> TRUE]

write_no_tlb_segment_fault(pm, bm, a, g) ==
    write_no_tlb_segment_fault_from(pm, bm, a, g, 0, FALSE)

\* write_no_tlb printing the trailing space once more for every retry
write_no_tlb_spacing(pm, bm, a, g) ==
    CHOOSE q \in
      {[r EXCEPT !.tokens = @ \o [k \in 1..r.retries |-> " "]]
       : r \in {write_no_tlb_from(pm, bm, a, g, 0, FALSE)}} : TRUE

write_no_tlb(pm, bm, a, g) == write_no_tlb_from(pm, bm, a, g, 0, FALSE)

\* read_no_tlb with the offset left out of the address printed
read_no_tlb_without_offset(pm, bm, a, g) ==
    LET segment_table == PMGet(pm, a.s, g.int)
        page_table == get_page_table(pm, a.s, a.p, g.int)
        outside == PageTableReadOutside(pm, a.s, a.p, g.int)
        base == [pm |-> pm, bm |-> bm, retries |-> 0, fault |-> "none",
                 ub |-> outside]
    IN  IF segment_table = -1 \/ page_table = -1
        THEN base @@ [tokens |-> <<"pf", " ">>, valid |-> FALSE]
        ELSE IF segment_table = 0 \/ page_table = 0
        THEN base @@ [tokens |-> <<"err", " ">>, valid |-> FALSE]
        ELSE base @@ [tokens |-> <<page_table, " ">>, valid |-> TRUE]

\* read_no_tlb allocating like write_no_tlb where the address is not backed
read_no_tlb_allocating(pm, bm, a, g) ==
    [write_no_tlb(pm, bm, a, g) EXCEPT !.retries = 0]

\* VirtualMemorySystem::read_no_tlb
read_no_tlb(pm, bm, a, g) ==
    LET segment_table == PMGet(pm, a.s, g.int)
        page_table == get_page_table(pm, a.s, a.p, g.int)
        outside == PageTableReadOutside(pm, a.s, a.p, g.int)
        base == [pm |-> pm, bm |-> bm, retries |-> 0, fault |-> "none",
                 ub |-> outside]
    IN  IF segment_table = -1 \/ page_table = -1
        THEN base @@ [tokens |-> <<"pf", " ">>, valid |-> FALSE]
        ELSE IF segment_table = 0 \/ page_table = 0
        THEN base @@ [tokens |-> <<"err", " ">>, valid |-> FALSE]
        ELSE base @@ [tokens |-> <<page_table + a.w, " ">>, valid |-> TRUE]

\* VirtualMemorySystem::tlb_operation
tlb_operation(pm, bm, c, a, operation, g) ==
    LET sp == a.sp
        hit == hit_index(c, sp)
    IN  IF hit = -1
        THEN CHOOSE r \in
          {LET frame == PMGet(d.pm, PMGet(d.pm, a.s, g.int) + a.p, g.int)
           IN  CHOOSE q \in
                 {[d EXCEPT !.tokens = <<"m ">> \o @,
                            !.ub = @ \/ (d.valid /\ m.ub)]
                  @@ [cache |-> IF d.valid THEN m.cache ELSE c,
                      path |-> "miss"]
                  : m \in {do_miss(c, sp, frame)}} : TRUE
           : d \in {IF operation = READ_OP THEN read_no_tlb(pm, bm, a, g)
                                           ELSE write_no_tlb(pm, bm, a, g)}}
             : TRUE
        ELSE
          CHOOSE r \in
            {[pm |-> pm, bm |-> bm, cache |-> h.cache,
              tokens |-> <<"h ", h.f + a.w, " ">>, valid |-> TRUE,
              retries |-> 0, fault |-> "none", ub |-> FALSE, path |-> "hit"]
             : h \in {do_hit(c, sp, hit)}} : TRUE

\* VirtualAddress va{address}: the objects of the addresses of the action
\* file, each decoded once
Decoded ==
    [address \in Addresses \cup DemandAddresses |-> VirtualAddress(address)]

\* VirtualMemorySystem::read(address, use_tlb)
read(pm, bm, c, address, tlb, g) ==
    LET a == Decoded[address]
    IN  IF tlb THEN tlb_operation(pm, bm, c, a, READ_OP, g)
        ELSE read_no_tlb(pm, bm, a, g) @@ [cache |-> c, path |-> "direct"]

\* VirtualMemorySystem::write(address, use_tlb)
write(pm, bm, c, address, tlb, g) ==
    LET a == Decoded[address]
    IN  IF tlb THEN tlb_operation(pm, bm, c, a, WRITE_OP, g)
        ELSE write_no_tlb(pm, bm, a, g) @@ [cache |-> c, path |-> "direct"]

\* VirtualMemorySystem::create_page_table
create_page_table(pm, bm, segment, address) ==
    LET frame == get_frame_number(address)
        s1 == BitMapSet(bm, frame[1], frame[2])
        s2 == BitMapSet(s1.bm, frame[1], frame[2] + 1)
    IN  IF address # -1
        THEN [pm |-> PMSet(pm, segment, address), bm |-> s2.bm,
              ub |-> s1.ub \/ s2.ub]
        ELSE [pm |-> PMSet(pm, segment, address), bm |-> bm, ub |-> FALSE]

\* VirtualMemorySystem::create_page
create_page(pm, bm, page, segment, address, g) ==
    LET page_table_address == PMGet(pm, segment, g.int)
        page_start == page_table_address + page
        frame == get_frame_number(address)
        s1 == BitMapSet(bm, frame[1], frame[2])
    IN  [pm |-> PMSet(pm, page_start, address),
         bm |-> s1.bm,
         ub |-> s1.ub \/ ~InPM(page_start)]

---------------------------------------------------------------------------
(* The run of main.cpp's start(): the page-table line, the page line, then *)
(* the actions, on a freshly constructed VirtualMemorySystem.              *)

\* the addresses of the layout file: invalid (-1) or the base of a frame
TableAddresses == {-1, FRAME_SIZE}

PageAddresses == {-1, 3 * FRAME_SIZE}

\* the pages named by the layout file
LayoutPages == {0}

\* what a read outside an array may yield
Garbage == [int : {-1, 0, 1}, bit : BOOLEAN]

NoGarbage == [int |-> 0, bit |-> FALSE]

\* The values to consider for an operation whose result with NoGarbage is
\* r0: no read left an array when r0.ub is FALSE, and then g is never used.
GarbageFor(r0) == IF r0.ub THEN Garbage ELSE {NoGarbage}

CrashFor(r) == IF r.ub THEN BOOLEAN ELSE {FALSE}

NoOperation ==
    [op |-> "none", args |-> <<>>, tokens |-> <<>>, valid |-> FALSE,
     retries |-> 0, path |-> "none"]

\* VirtualMemorySystem::VirtualMemorySystem
FreshMemory == init_physical_memory

FreshBitMap == BitMapSet(BitMapClear, 0, 0).bm

Init ==
    /\ physical_memory = FreshMemory
    /\ bit_map = FreshBitMap
    /\ cache = init_cache
    /\ use_tlb = FALSE
    /\ phase = "pt"
    /\ fault = "none"
    /\ ub = FALSE
    /\ last = NoOperation
    /\ va = <<>>
    /\ recency = <<>>

Running == fault = "none"

\* how an operation that left an array ends: it goes on, or the process dies
Outcome(thrown, outside, crash) ==
    IF thrown # "none" THEN thrown
    ELSE IF outside /\ crash THEN "crash" ELSE "none"

\* process_page_table_line: one (segment, address) pair; each segment is
\* named at most once
CreatePageTable(segment, address) ==
    /\ Running /\ phase = "pt"
    /\ PMGet(physical_memory, segment, 0) = 0
    /\ \E r \in {create_page_table(physical_memory, bit_map, segment,
                                    address)} :
           \E crash \in CrashFor(r) :
             /\ physical_memory' = r.pm
             /\ bit_map' = r.bm
             /\ ub' = (ub \/ r.ub)
             /\ fault' = Outcome("none", r.ub, crash)
             /\ last' = [NoOperation EXCEPT !.op = "create_page_table",
                                            !.args = <<segment, address>>]
    /\ UNCHANGED <<cache, use_tlb, phase, va, recency>>

EndPageTableLine ==
    /\ Running /\ phase = "pt"
    /\ phase' = "page"
    /\ last' = NoOperation
    /\ UNCHANGED <<physical_memory, bit_map, cache, use_tlb, fault, ub, va,
                   recency>>

\* process_page_line: one (page, segment, address) triple; the segment was
\* given a page table by the first line and each page is named at most once
CreatePage(page, segment, address) ==
    /\ Running /\ phase = "page"
    /\ PMGet(physical_memory, segment, 0) > 0
    /\ get_page_table(physical_memory, segment, page, 0) = 0
    /\ \E g \in GarbageFor(create_page(physical_memory, bit_map, page,
                                        segment, address, NoGarbage)) :
         \E r \in {create_page(physical_memory, bit_map, page, segment,
                                address, g)} :
             \E crash \in CrashFor(r) :
             /\ physical_memory' = r.pm
             /\ bit_map' = r.bm
             /\ ub' = (ub \/ r.ub)
             /\ fault' = Outcome("none", r.ub, crash)
             /\ last' = [NoOperation EXCEPT !.op = "create_page",
                                            !.args = <<page, segment, address>>]
    /\ UNCHANGED <<cache, use_tlb, phase, va, recency>>

EndPageLine ==
    /\ Running /\ phase = "page"
    /\ phase' = "run"
    /\ last' = NoOperation
    /\ UNCHANGED <<physical_memory, bit_map, cache, use_tlb, fault, ub, va,
                   recency>>

\* the counters of the TLB are still within the modelled range
LruInRange == \A i \in Slots : cache[i].lru_value > -MaxLruDepth

\* the effect of one record of the action file
Perform(name, address, r, crash) ==
    /\ physical_memory' = r.pm
    /\ bit_map' = r.bm
    /\ cache' = r.cache
    /\ ub' = (ub \/ r.ub)
    /\ fault' = Outcome(r.fault, r.ub, crash)
    /\ last' = [op |-> name, args |-> <<address>>, tokens |-> r.tokens,
                valid |-> r.valid, retries |-> r.retries, path |-> r.path]
    /\ UNCHANGED <<use_tlb, phase, va, recency>>

\* process_action_file, case 0
Read(address) ==
    /\ Running /\ phase = "run" /\ LruInRange
    /\ \E g \in GarbageFor(read(physical_memory, bit_map, cache, address,
                                 use_tlb, NoGarbage)) :
         \E r \in {read(physical_memory, bit_map, cache, address, use_tlb, g)} :
             \E crash \in CrashFor(r) : Perform("read", address, r, crash)

\* process_action_file, case 1
Write(address) ==
    /\ Running /\ phase = "run" /\ LruInRange
    /\ \E g \in GarbageFor(write(physical_memory, bit_map, cache, address,
                                  use_tlb, NoGarbage)) :
         \E r \in {write(physical_memory, bit_map, cache, address, use_tlb, g)} :
             \E crash \in CrashFor(r) : Perform("write", address, r, crash)

Next ==
    \/ \E s \in Segments, a \in TableAddresses : CreatePageTable(s, a)
    \/ EndPageTableLine
    \/ \E p \in LayoutPages, s \in Segments, a \in PageAddresses :
           CreatePage(p, s, a)
    \/ EndPageLine
    \/ \E a \in Addresses : Read(a)
    \/ \E a \in Addresses : Write(a)

Spec == Init /\ [][Next]_vars

---------------------------------------------------------------------------
(* Properties of the direct path (read_no_tlb, write_no_tlb).              *)
(* ST[s] is the word s of physical memory and PT[s,p] the word ST[s] + p,  *)
(* as get_page_table reads them.  A step whose new `last` is a read or a   *)
(* write is the execution of that operation on the state before the step.  *)

STof(pm, s) == PMGet(pm, s, 0)

PTof(pm, s, p) == PMGet(pm, STof(pm, s) + p, 0)

\* PT[s,p] is a word of the physical array
PTDefined(pm, s, p) == InPM(STof(pm, s) + p)

LastIs(l, name) == l.op = name /\ l.path = "direct"

\* frames whose bit is 0, frame 0 apart
FreeFrames(bm) ==
    {f \in 1..(N_FRAMES - 1) : (f % WIDTH) \notin bm[f \div WIDTH]}

\* room for a page table (two adjacent frames) and one more frame
FramesAvailable(bm) ==
    \E f \in FreeFrames(bm) :
        /\ f + 1 \in FreeFrames(bm)
        /\ FreeFrames(bm) \ {f, f + 1} # {}

\* C1: a direct read that returns prints pf when ST[s] = -1 or PT[s,p] = -1,
\* otherwise err when ST[s] = 0 or PT[s,p] = 0, otherwise PT[s,p] + offset;
\* it returns true (resolved) only in the last case.
C1_DirectReadOutput ==
    [][(LastIs(last', "read") /\ fault' = "none") =>
         LET a == Decoded[last'.args[1]]
             st == STof(physical_memory, a.s)
             pt == PTof(physical_memory, a.s, a.p)
         IN  IF st = -1
             THEN last'.tokens = <<"pf", " ">> /\ ~last'.valid
             ELSE PTDefined(physical_memory, a.s, a.p) =>
                    IF pt = -1
                    THEN last'.tokens = <<"pf", " ">> /\ ~last'.valid
                    ELSE IF st = 0 \/ pt = 0
                    THEN last'.tokens = <<"err", " ">> /\ ~last'.valid
                    ELSE last'.tokens = <<pt + a.w, " ">> /\ last'.valid
      ]_vars

\* C1 witness: a direct read resolved an address with a non-zero offset
C1_Witness ==
    /\ LastIs(last, "read") /\ last.valid /\ fault = "none"
    /\ Decoded[last.args[1]].w = FRAME_SIZE - 1
    /\ last.tokens[1] =
         PTof(physical_memory, Decoded[last.args[1]].s,
              Decoded[last.args[1]].p) + FRAME_SIZE - 1

\* C2: with free frames available, a direct write to an address whose ST[s]
\* is 0 makes ST[s] > 0 and PT[s,p] > 0 and prints PT[s,p] + offset, never
\* pf or err.
C2_WriteAllocatesTableAndPage ==
    [][LET a == Decoded[last'.args[1]]
       IN  (/\ LastIs(last', "write")
            /\ STof(physical_memory, a.s) = 0
            /\ FramesAvailable(bit_map)) =>
             /\ STof(physical_memory', a.s) > 0
             /\ PTof(physical_memory', a.s, a.p) > 0
             /\ last'.tokens =
                  <<PTof(physical_memory', a.s, a.p) + a.w, " ">>
      ]_vars

\* the number of retries C3 states for a write in memory pm: a segment
\* without a page table has no page entry allocated either
ExpectedRetries(pm, s, p) ==
    IF STof(pm, s) = 0 THEN 2
    ELSE IF STof(pm, s) > 0 /\ PTof(pm, s, p) = 0 THEN 1
    ELSE 0

\* C3: a write that returns has made at most two allocation retries: two
\* when segment and page entry are unallocated, one when only the page
\* entry is, none otherwise.
C3_WriteRetries ==
    [][(LastIs(last', "write") /\ fault' = "none") =>
         LET a == Decoded[last'.args[1]]
         IN  /\ last'.retries <= 2
             /\ last'.retries = ExpectedRetries(physical_memory, a.s, a.p)
      ]_vars

\* the address is backed: ST[s] > 0 and PT[s,p] > 0
Resolved(pm, a) ==
    /\ STof(pm, a.s) > 0
    /\ PTDefined(pm, a.s, a.p)
    /\ PTof(pm, a.s, a.p) > 0

\* C4: once a write of an address has resolved, every later write and read
\* of that address prints the same physical address and changes neither
\* physical memory nor the bitmap.  Stated step by step, for every address
\* a of the trace: a write of a that resolves leaves a backed and prints
\* PT[s,p] + offset; no step changes ST[s] or PT[s,p] of a backed address;
\* a read or write of a backed address prints PT[s,p] + offset and leaves
\* physical memory and the bitmap as they are.
C4_ResolvedWriteIsStable ==
    [][\A address \in Addresses :
         LET a == Decoded[address]
             backed == Resolved(physical_memory, a)
             here == last'.args = <<address>> /\ fault' = "none"
         IN  /\ (LastIs(last', "write") /\ here /\ last'.valid) =>
                  /\ Resolved(physical_memory', a)
                  /\ last'.tokens =
                       <<PTof(physical_memory', a.s, a.p) + a.w, " ">>
             /\ backed =>
                  /\ STof(physical_memory', a.s) = STof(physical_memory, a.s)
                  /\ PTof(physical_memory', a.s, a.p)
                       = PTof(physical_memory, a.s, a.p)
             /\ (backed /\ here
                   /\ (LastIs(last', "write") \/ LastIs(last', "read"))) =>
                  /\ last'.tokens =
                       <<PTof(physical_memory, a.s, a.p) + a.w, " ">>
                  /\ physical_memory' = physical_memory
                  /\ bit_map' = bit_map
      ]_vars

\* C4 witness: page 2 is never named by the layout, so its frame was
\* allocated by an earlier write; a later write of it made no retry
C4_Witness ==
    /\ LastIs(last, "write") /\ last.valid /\ last.retries = 0
    /\ fault = "none"
    /\ Decoded[last.args[1]].p = 2
    /\ Resolved(physical_memory, Decoded[last.args[1]])

\* the address is valid but not backed: neither entry is -1, one is 0
Unbacked(pm, a) ==
    /\ STof(pm, a.s) # -1
    /\ PTDefined(pm, a.s, a.p)
    /\ PTof(pm, a.s, a.p) # -1
    /\ (STof(pm, a.s) = 0 \/ PTof(pm, a.s, a.p) = 0)

\* C5: a read leaves physical memory and the bitmap unchanged, and a read
\* of a valid but unbacked address prints err and leaves it unbacked, so
\* that every repetition prints err again.
C5_ReadNeverAllocates ==
    [][LastIs(last', "read") =>
         LET a == Decoded[last'.args[1]]
         IN  /\ physical_memory' = physical_memory
             /\ bit_map' = bit_map
             /\ Unbacked(physical_memory, a) =>
                  /\ last'.tokens = <<"err", " ">>
                  /\ Unbacked(physical_memory', a)
      ]_vars

\* C5 witness: a read of an unbacked address printed err while frames
\* were free
C5_Witness ==
    /\ LastIs(last, "read") /\ last.tokens = <<"err", " ">>
    /\ Unbacked(physical_memory, Decoded[last.args[1]])
    /\ FreeFrames(bit_map) # {}

---------------------------------------------------------------------------
(* VirtualAddress alone: an int32_t is given, the constructor decodes it.  *)

\* the bit fields the addresses given are made of
HighBits == {0, 7, 8, 15}

SegmentFields == {0, 1, 2^SEGMENT_BITS - 1}

PageFields == {0, 1, 2^PAGE_BITS - 1}

OffsetFields == {0, 1, 2^OFFSET_BITS - 1}

VAInputs ==
    {MakeAddress(hi, s, p, w) :
        hi \in HighBits, s \in SegmentFields, p \in PageFields,
        w \in OffsetFields}

InitVA ==
    /\ physical_memory = FreshMemory
    /\ bit_map = FreshBitMap
    /\ cache = init_cache
    /\ use_tlb = FALSE
    /\ phase = "address"
    /\ fault = "none"
    /\ ub = FALSE
    /\ last = NoOperation
    /\ recency = <<>>
    /\ \E addr \in VAInputs : va = <<addr>>

\* VirtualAddress address{addr};
Construct ==
    /\ phase = "address"
    /\ Len(va) = 1
    /\ va' = <<va[1], VirtualAddress(va[1])>>
    /\ UNCHANGED <<physical_memory, bit_map, cache, use_tlb, phase, fault,
                   ub, last, recency>>

NextVA == Construct

SpecVA == InitVA /\ [][NextVA]_vars

Constructed == phase = "address" /\ Len(va) = 2

\* C6: the three fields of a decoded address a put together again give the
\* low 28 bits: segment * 2^19 + page * 2^9 + offset = a mod 2^28.
C6_FieldsRecompose ==
    Constructed =>
        va[2].s * 2^19 + va[2].p * 2^9 + va[2].w = va[1] % 2^28

\* C6 witness: a negative address with every field at its maximum decoded
C6_Witness ==
    /\ Constructed
    /\ va[1] = -1
    /\ va[2].s = 511 /\ va[2].p = 1023 /\ va[2].w = 511

\* C7: segment_and_page_number = segment * 2^10 + page; segment is in
\* [0,511], page in [0,1023], offset in [0,511]; the top 4 bits are
\* ignored: an address with the same low 28 bits decodes to the same
\* fields.
C7_SegmentAndPageNumber ==
    Constructed =>
        /\ va[2].sp = va[2].s * 2^10 + va[2].p
        /\ va[2].s \in 0..511
        /\ va[2].p \in 0..1023
        /\ va[2].w \in 0..511
        /\ \A other \in {b \in VAInputs : b % 2^28 = va[1] % 2^28} :
             /\ segment_number(other) = va[2].s
             /\ page_number(other) = va[2].p
             /\ offset(other) = va[2].w
             /\ segment_and_page_number(other) = va[2].sp

\* C7 witness: an address with top bits set decoded to a non-zero segment
\* and page
C7_Witness ==
    /\ Constructed
    /\ va[1] = MakeAddress(8, 1, 1023, 1)
    /\ va[2].sp = 2047

---------------------------------------------------------------------------
(* TranslationLookAsideBuffer alone, called as tlb_operation calls it:     *)
(* hit_index(sp) first, then do_hit on the line found, or do_miss when     *)
(* there is none.  recency lists the keys accessed so far, each once, the  *)
(* most recently accessed last.                                            *)

\* the keys (sp) and frames of the calls
TLBKeys == {0, 1, 2, 3, 2^(SEGMENT_BITS + PAGE_BITS) - 1}

TLBFrames == {FRAME_SIZE, 2 * FRAME_SIZE}

Touch(keys, sp) == SelectSeq(keys, LAMBDA k : k # sp) \o <<sp>>

InitTLB ==
    /\ physical_memory = FreshMemory
    /\ bit_map = FreshBitMap
    /\ cache = init_cache
    /\ use_tlb = TRUE
    /\ phase = "tlb"
    /\ fault = "none"
    /\ ub = FALSE
    /\ last = NoOperation
    /\ va = <<>>
    /\ recency = <<>>

\* tlb.do_hit(sp, hit_index)
DoHit(sp) ==
    /\ Running /\ phase = "tlb" /\ LruInRange
    /\ hit_index(cache, sp) # -1
    /\ \E h \in {do_hit(cache, sp, hit_index(cache, sp))} :
         /\ cache' = h.cache
         /\ last' = [op |-> "do_hit", args |-> <<sp>>, tokens |-> <<h.f>>,
                     valid |-> TRUE, retries |-> 0, path |-> "hit"]
    /\ recency' = Touch(recency, sp)
    /\ UNCHANGED <<physical_memory, bit_map, use_tlb, phase, fault, ub, va>>

\* tlb.do_miss(sp, frame); a write to cache[capacity] leaves the array
DoMiss(sp, frame) ==
    /\ Running /\ phase = "tlb" /\ LruInRange
    /\ hit_index(cache, sp) = -1
    /\ \E m \in {do_miss(cache, sp, frame)} :
         /\ cache' = m.cache
         /\ ub' = (ub \/ m.ub)
         /\ \E crash \in IF m.ub THEN BOOLEAN ELSE {FALSE} :
                fault' = Outcome("none", m.ub, crash)
         /\ last' = [op |-> "do_miss", args |-> <<sp, frame>>,
                     tokens |-> <<m.index>>, valid |-> ~m.ub,
                     retries |-> 0, path |-> "miss"]
    /\ recency' = Touch(recency, sp)
    /\ UNCHANGED <<physical_memory, bit_map, use_tlb, phase, va>>

NextTLB ==
    \/ \E sp \in TLBKeys : DoHit(sp)
    \/ \E sp \in TLBKeys, frame \in TLBFrames : DoMiss(sp, frame)

SpecTLB == InitTLB /\ [][NextTLB]_vars

Called == phase = "tlb" /\ last.op \in {"do_hit", "do_miss"}

\* C8: after any sequence of do_hit and do_miss calls the lru_values of the
\* entries are a permutation of 0..3: every rank is held by exactly one
\* entry.
C8_LruValuesArePermutation ==
    Called =>
        \A rank \in 0..max_lru_value :
            Cardinality({i \in Slots : cache[i].lru_value = rank}) = 1

\* C9: after every call an entry with lru_value 0 exists, and no do_miss
\* has accessed cache[capacity].
C9_LowestRankExists ==
    Called =>
        /\ \E i \in Slots : cache[i].lru_value = 0
        /\ ~ub
        /\ last.op = "do_miss" => last.tokens[1] \in Slots

\* the keys held by the entries
CachedKeys == {cache[i].sp : i \in Slots} \ {-1}

\* the n keys accessed most recently
MostRecent(n) ==
    {recency[j] : j \in {k \in 1..Len(recency) : k > Len(recency) - n}}

\* where key sp stands in recency
Position(sp) == CHOOSE j \in 1..Len(recency) : recency[j] = sp

---------------------------------------------------------------------------
(* A fresh TLB filled by successive do_miss calls with distinct keys.      *)

NextFill == \E sp \in TLBKeys, frame \in TLBFrames : DoMiss(sp, frame)

SpecFill == InitTLB /\ [][NextFill]_vars

\* C11: while at most capacity distinct keys have been inserted into a
\* fresh TLB by successive do_miss calls, every inserted key is found by
\* hit_index, the first inserted key at index 0, and do_hit on it returns
\* the frame it was inserted with.  Step by step: after each such do_miss
\* the key just inserted is found and do_hit returns its frame, and every
\* key inserted before is still found, with the frame it had.
C11_InsertedKeysAreFound ==
    [][(last'.op = "do_miss" /\ Len(recency') <= capacity) =>
         /\ hit_index(cache', recency'[1]) = 0
         /\ LET sp == last'.args[1]
                line == hit_index(cache', sp)
            IN  /\ line # -1
                /\ do_hit(cache', sp, line).f = last'.args[2]
         /\ \A j \in 1..Len(recency) :
              LET before == hit_index(cache, recency[j])
                  after == hit_index(cache', recency[j])
              IN  /\ after # -1
                  /\ before # -1
                  /\ do_hit(cache', recency[j], after).f
                       = do_hit(cache, recency[j], before).f
      ]_vars

\* C12: after do_hit the entry hit has lru_value capacity - 1, and every
\* other entry has a strictly smaller lru_value.
C12_HitEntryIsMostRecent ==
    (phase = "tlb" /\ last.op = "do_hit") =>
        LET line == hit_index(cache, last.args[1])
        IN  /\ line # -1
            /\ cache[line].lru_value = capacity - 1
            /\ \A i \in Slots \ {line} :
                 cache[i].lru_value < cache[line].lru_value

\* C12 witness: a key was hit after another key had been accessed since
\* its insertion
C12_Witness ==
    /\ phase = "tlb" /\ last.op = "do_hit"
    /\ Len(recency) >= 2
    /\ cache[hit_index(cache, last.args[1])].lru_value = capacity - 1

\* C13: every entry's lru_value lies in 0..capacity-1, in every state
\* reached by do_hit and do_miss calls.
C13_LruValueInRange ==
    phase = "tlb" =>
        \A i \in Slots : cache[i].lru_value \in 0..(capacity - 1)

---------------------------------------------------------------------------
(* BitMap alone: a bitmap of BM_SIZE rows with any content, searched and   *)
(* set through its public operations.                                      *)

\* every content of the rows
BitMapContents == [0..(BM_SIZE - 1) -> SUBSET (0..(WIDTH - 1))]

\* the arguments given to set: inside the bitmap, and one step outside
SetRows == (-1)..BM_SIZE

SetBits == (-1)..(WIDTH + 1)

InitBM ==
    /\ physical_memory = FreshMemory
    /\ bit_map \in BitMapContents
    /\ cache = init_cache
    /\ use_tlb = FALSE
    /\ phase = "bitmap"
    /\ fault = "none"
    /\ ub = FALSE
    /\ last = NoOperation
    /\ va = <<>>
    /\ recency = <<>>

\* what a search returned, as `last` records it
Searched(name, r) ==
    [op |-> name, args |-> <<>>,
     tokens |-> IF r.kind = "ok" THEN <<r.index, r.bit>> ELSE <<>>,
     valid |-> r.kind = "ok", retries |-> 0, path |-> "bitmap"]

\* bit_map.find_first_zero()
FindFirstZero ==
    /\ Running /\ phase = "bitmap"
    /\ \E r \in {find_first_zero(bit_map)} :
         /\ last' = Searched("find_first_zero", r)
         /\ fault' = IF r.kind = "ok" THEN "none" ELSE r.kind
    /\ UNCHANGED <<physical_memory, bit_map, cache, use_tlb, phase, ub, va,
                   recency>>

\* bit_map.find_consecutive_zeros(); g is what a read of array[BM_SIZE]
\* yields
FindConsecutiveZeros ==
    /\ Running /\ phase = "bitmap"
    /\ \E g \in IF find_consecutive_zeros(bit_map, FALSE).ub
                THEN BOOLEAN ELSE {FALSE} :
         \E r \in {find_consecutive_zeros(bit_map, g)} :
           \E crash \in IF r.ub THEN BOOLEAN ELSE {FALSE} :
             /\ last' = Searched("find_consecutive_zeros", r)
             /\ ub' = (ub \/ r.ub)
             /\ fault' = Outcome(IF r.kind = "ok" THEN "none" ELSE r.kind,
                                 r.ub, crash)
    /\ UNCHANGED <<physical_memory, bit_map, cache, use_tlb, phase, va,
                   recency>>

\* how a sequence of set calls ends: the first exception, or none
SetDone(name, index, bit, bm, thrown, outside) ==
    /\ bit_map' = bm
    /\ ub' = (ub \/ outside)
    /\ \E crash \in IF outside THEN BOOLEAN ELSE {FALSE} :
           fault' = Outcome(thrown, outside, crash)
    /\ last' = [op |-> name, args |-> <<index, bit>>, tokens |-> <<>>,
                valid |-> thrown = "none" /\ ~outside, retries |-> 0,
                path |-> "bitmap"]
    /\ UNCHANGED <<physical_memory, cache, use_tlb, phase, va, recency>>

\* bit_map.set(index, bit, true)
Set(index, bit) ==
    /\ Running /\ phase = "bitmap"
    /\ \E s \in {BitMapSet(bit_map, index, bit)} :
         SetDone("set", index, bit, s.bm, s.fault, s.ub)

\* the two frames of a page table marked used, as create_page_table and
\* allocate_new_page_table do:
\* bit_map.set(index, bit, true); bit_map.set(index, bit + 1, true)
SetPair(index, bit) ==
    /\ Running /\ phase = "bitmap"
    /\ \E s1 \in {BitMapSet(bit_map, index, bit)} :
         IF s1.fault # "none" \/ s1.ub
         THEN SetDone("set_pair", index, bit, s1.bm, s1.fault, s1.ub)
         ELSE \E s2 \in {BitMapSet(s1.bm, index, bit + 1)} :
                SetDone("set_pair", index, bit, s2.bm, s2.fault, s2.ub)

NextBM ==
    \/ FindFirstZero
    \/ FindConsecutiveZeros
    \/ \E index \in SetRows, bit \in SetBits : Set(index, bit)
    \/ \E index \in 0..(BM_SIZE - 1), bit \in 0..(WIDTH - 1) :
         SetPair(index, bit)

SpecBM == InitBM /\ [][NextBM]_vars

\* the searches alone
NextSearch == FindFirstZero \/ FindConsecutiveZeros

SpecSearch == InitBM /\ [][NextSearch]_vars

Positions == (0..(BM_SIZE - 1)) \X (0..(WIDTH - 1))

Raster(c) == c[1] * WIDTH + c[2]

RasterNext(c) == IF c[2] + 1 = WIDTH THEN <<c[1] + 1, 0>> ELSE <<c[1], c[2] + 1>>

IsZero(bm, c) == c[2] \notin bm[c[1]]

\* the zero bits at or after (0,1)
ZerosAfterOrigin(bm) == {c \in Positions : Raster(c) >= 1 /\ IsZero(bm, c)}

\* the zero bits at or after (0,1) whose raster-next bit is zero too
AdjacentZeros(bm) ==
    {c \in ZerosAfterOrigin(bm) :
        RasterNext(c) \in Positions /\ IsZero(bm, RasterNext(c))}

\* C14: the pair find_consecutive_zeros returns is made of two zero bits,
\* (row,bit) and its raster-next bit; a set of the pair leaves both bits 1
\* and no operation clears a bit, so that a later find_consecutive_zeros
\* returns no pair sharing a bit with it.
C14_ConsecutiveZerosAreFree ==
    [][/\ (last'.op = "find_consecutive_zeros" /\ last'.valid) =>
            /\ last'.tokens \in Positions
            /\ IsZero(bit_map, last'.tokens)
            /\ RasterNext(last'.tokens) \in Positions
            /\ IsZero(bit_map, RasterNext(last'.tokens))
       /\ (last'.op = "set_pair" /\ last'.valid) =>
            /\ ~IsZero(bit_map', last'.args)
            /\ ~IsZero(bit_map', RasterNext(last'.args))
       /\ \A c \in Positions : ~IsZero(bit_map, c) => ~IsZero(bit_map', c)
      ]_vars

\* C15: when some bit other than (0,0) is zero, find_first_zero returns the
\* raster-first zero bit at or after (0,1), and never (0,0), whether or
\* not bit (0,0) is set.
C15_FirstZeroSkipsOrigin ==
    (phase = "bitmap" /\ last.op = "find_first_zero"
       /\ ZerosAfterOrigin(bit_map) # {}) =>
        /\ last.valid
        /\ last.tokens \in ZerosAfterOrigin(bit_map)
        /\ \A c \in ZerosAfterOrigin(bit_map) :
             Raster(last.tokens) <= Raster(c)
        /\ last.tokens # <<0, 0>>

\* C15 witness: bit (0,0) is zero, row 0 is otherwise full, and the search
\* returned the first bit of row 1
C15_Witness ==
    /\ phase = "bitmap" /\ last.op = "find_first_zero"
    /\ bit_map[0] = 1..(WIDTH - 1)
    /\ last.tokens = <<1, 0>>

\* C16: find_first_zero throws MemoryException when no bit at or after
\* (0,1) is zero; find_consecutive_zeros throws it when no two raster-
\* adjacent bits at or after (0,1) are zero; neither accesses a row
\* outside the bitmap.
C16_ExhaustionIsReported ==
    [][/\ (last'.op = "find_first_zero"
             /\ ZerosAfterOrigin(bit_map) = {}) =>
            fault' = "MemoryException"
       /\ (last'.op = "find_consecutive_zeros"
             /\ AdjacentZeros(bit_map) = {}) =>
            fault' = "MemoryException"
       /\ last'.op \in {"find_first_zero", "find_consecutive_zeros"} =>
            ub' = ub
      ]_vars

\* C17: a set with a row outside 0..BM_SIZE-1 or a bit outside
\* 0..WIDTH-1, the second set of a page table's pair included, throws
\* out_of_range and accesses nothing outside the bitmap.
C17_SetOutsideIsReported ==
    [][/\ (last'.op = "set" /\ last'.args \notin Positions) =>
            fault' = "out_of_range" /\ ub' = ub
       /\ (last'.op = "set_pair"
             /\ RasterNext(last'.args) \notin Positions) =>
            fault' = "out_of_range" /\ ub' = ub
      ]_vars

---------------------------------------------------------------------------
(* Outcomes of the actions of a run.                                       *)

\* C18: a read or write that prints pf or err returns normally: no
\* exception is thrown, no access leaves an array, and the run goes on
\* with the next action.
C18_FaultOutcomesReturnNormally ==
    [][(/\ last'.op \in {"read", "write"}
        /\ ~last'.valid
        /\ Len(last'.tokens) >= 2
        /\ last'.tokens[Len(last'.tokens) - 1] \in {"pf", "err"})
         =>
           /\ fault' = "none"
           /\ ~ub => ~ub'
      ]_vars

---------------------------------------------------------------------------
(* The two runs of main.cpp: start(..., false) and, on a new system,       *)
(* start(..., true), over the addresses of two pages per segment.          *)

RunPages == {0, 1}

RunAddresses ==
    {MakeAddress(v[1], s, p, v[2]) :
        v \in Variants, s \in Segments, p \in RunPages}

InitRuns ==
    /\ physical_memory = FreshMemory
    /\ bit_map = FreshBitMap
    /\ cache = init_cache
    /\ use_tlb \in BOOLEAN
    /\ phase = "pt"
    /\ fault = "none"
    /\ ub = FALSE
    /\ last = NoOperation
    /\ va = <<>>
    /\ recency = <<>>

NextRuns ==
    \/ \E s \in Segments, a \in TableAddresses : CreatePageTable(s, a)
    \/ EndPageTableLine
    \/ \E p \in LayoutPages, s \in Segments, a \in PageAddresses :
           CreatePage(p, s, a)
    \/ EndPageLine
    \/ \E a \in RunAddresses : Read(a)
    \/ \E a \in RunAddresses : Write(a)

SpecRuns == InitRuns /\ [][NextRuns]_vars

\* C19: an action that completes prints, in TLB mode, one marker "h " or
\* "m " first, and then in both modes one result token (an address, pf or
\* err) and one space, whatever the number of retries of a write.
C19_OutputOfAnAction ==
    [][(last'.op \in {"read", "write"} /\ fault' = "none") =>
         LET printed == last'.tokens
             result == IF use_tlb THEN Tail(printed) ELSE printed
         IN  /\ use_tlb => printed[1] \in {"h ", "m "}
             /\ Len(result) = 2
             /\ IF last'.valid THEN result[1] \in Int
                               ELSE result[1] \in {"pf", "err"}
             /\ result[2] = " "
      ]_vars

\* C19 witness: a write in TLB mode printed the marker, one address and
\* one space after two allocations
C19_Witness ==
    /\ use_tlb /\ last.op = "write" /\ last.retries = 2 /\ fault = "none"
    /\ Len(last.tokens) = 3
    /\ last.tokens[1] = "m "

\* C20: in TLB mode an access whose key is absent prints "m ", has the
\* effect and the output of the direct path, and afterwards the key is in
\* the TLB with frame PT[s,p] if and only if the direct path resolved; when
\* it printed pf or err no entry of the TLB has changed.
C20_MissInsertsWhenResolved ==
    [][(/\ use_tlb /\ last'.op \in {"read", "write"} /\ fault' = "none"
        /\ hit_index(cache, Decoded[last'.args[1]].sp) = -1) =>
         LET a == Decoded[last'.args[1]]
         IN  /\ last'.tokens[1] = "m "
             /\ \E g \in Garbage :
                  \E d \in {IF last'.op = "read"
                            THEN read_no_tlb(physical_memory, bit_map, a, g)
                            ELSE write_no_tlb(physical_memory, bit_map, a, g)} :
                    /\ physical_memory' = d.pm
                    /\ bit_map' = d.bm
                    /\ Tail(last'.tokens) = d.tokens
                    /\ last'.valid = d.valid
             /\ last'.valid =>
                  /\ hit_index(cache', a.sp) # -1
                  /\ cache'[hit_index(cache', a.sp)].f
                       = PTof(physical_memory', a.s, a.p)
             /\ ~last'.valid => cache' = cache
      ]_vars

\* C21: in TLB mode an access whose key is present prints "h " and the
\* cached frame + offset; it changes no word of physical memory, no bit of
\* the bitmap, and no key or frame of the TLB (only lru_values).
C21_HitTouchesOnlyRecency ==
    [][(/\ use_tlb /\ last'.op \in {"read", "write"}
        /\ hit_index(cache, Decoded[last'.args[1]].sp) # -1) =>
         LET a == Decoded[last'.args[1]]
             line == hit_index(cache, a.sp)
         IN  /\ last'.tokens = <<"h ", cache[line].f + a.w, " ">>
             /\ physical_memory' = physical_memory
             /\ bit_map' = bit_map
             /\ \A i \in Slots :
                  /\ cache'[i].sp = cache[i].sp
                  /\ cache'[i].f = cache[i].f
      ]_vars

\* C21 witness: a hit on an address with a non-zero offset, after another
\* access had lowered the entry's lru_value
C21_Witness ==
    /\ use_tlb /\ last.op \in {"read", "write"} /\ last.path = "hit"
    /\ Decoded[last.args[1]].w = FRAME_SIZE - 1
    /\ \E i \in Slots : cache[i].lru_value < -1

---------------------------------------------------------------------------
(* The bitmap and the allocation recorded in physical memory.              *)

\* the segments with a page table: ST[s] > 0
TableSegments(pm) == {s \in DOMAIN pm : 0 <= s /\ s < FRAME_SIZE /\ pm[s] > 0}

\* the frames of the page tables: two from ST[s] on
TableFrames(pm) ==
    UNION {{pm[s] \div FRAME_SIZE, pm[s] \div FRAME_SIZE + 1} :
             s \in TableSegments(pm)}

\* the words PT[s,p] > 0, p in 0..1023, of the page tables
PageWords(pm) ==
    {i \in DOMAIN pm :
        /\ pm[i] > 0
        /\ \E s \in TableSegments(pm) :
              pm[s] <= i /\ i < pm[s] + 2 * FRAME_SIZE}

PageFrames(pm) == {pm[i] \div FRAME_SIZE : i \in PageWords(pm)}

BitOfFrame(bm, f) == (f % WIDTH) \in bm[f \div WIDTH]

\* C22: bit (row,col) is set exactly when frame row * WIDTH + col is frame
\* 0, one of the two frames of a page table (ST[s] > 0), or the frame of a
\* page (PT[s,p] > 0).
C22_BitMapMirrorsAllocation ==
    phase \in {"pt", "page", "run"} =>
        \A f \in 0..(N_FRAMES - 1) :
            BitOfFrame(bit_map, f) <=>
                \/ f = 0
                \/ f \in TableFrames(physical_memory)
                \/ f \in PageFrames(physical_memory)

\* C22 witness: a page table and a page named by the layout, and a table
\* and pages allocated by writes
C22_Witness ==
    /\ phase = "run" /\ fault = "none"
    /\ STof(physical_memory, 0) = FRAME_SIZE
    /\ PTof(physical_memory, 0, 0) = 3 * FRAME_SIZE
    /\ STof(physical_memory, 1) > 3 * FRAME_SIZE
    /\ PTof(physical_memory, 1, 2) > 0
    /\ PTof(physical_memory, 0, 1) > 0

---------------------------------------------------------------------------
(* clear() and the replay of a trace on the cleared system: a driver that  *)
(* holds one VirtualMemorySystem calls clear() at any point and then feeds *)
(* the layout and the actions again, in direct mode.                       *)

\* clear() that resets the bitmap and keeps physical memory
clear_bitmap_only(pm, bm) ==
    [pm |-> pm, bm |-> BitMapClear]

\* VirtualMemorySystem::clear: init_physical_memory(0), then BitMap::clear
clear(pm, bm) ==
    [pm |-> init_physical_memory, bm |-> BitMapClear]

Clear ==
    /\ Running /\ phase \in {"pt", "page", "run"}
    /\ \E r \in {clear(physical_memory, bit_map)} :
         /\ physical_memory' = r.pm
         /\ bit_map' = r.bm
    /\ phase' = "pt"
    /\ last' = [NoOperation EXCEPT !.op = "clear"]
    /\ UNCHANGED <<cache, use_tlb, fault, ub, va, recency>>

NextClear ==
    \/ \E s \in Segments, a \in TableAddresses : CreatePageTable(s, a)
    \/ EndPageTableLine
    \/ \E p \in LayoutPages, s \in Segments, a \in PageAddresses :
           CreatePage(p, s, a)
    \/ EndPageLine
    \/ \E a \in RunAddresses : Read(a)
    \/ \E a \in RunAddresses : Write(a)
    \/ Clear

SpecClear == Init /\ [][NextClear]_vars

\* C23: in every state reached through construction, preload, read, write
\* and clear(), bit (0,0) of the bitmap is set, and no segment-table or
\* page-table entry made by an allocation names frame 0.
C23_FrameZeroReserved ==
    phase \in {"pt", "page", "run"} =>
        /\ BitOfFrame(bit_map, 0)
        /\ 0 \notin TableFrames(physical_memory)
        /\ 0 \notin PageFrames(physical_memory)

---------------------------------------------------------------------------
(* Entries and bits only ever appear under read and write.                 *)

\* C24: a read or a write changes no ST[s] > 0 and no PT[s,p] > 0, and
\* turns no bit of the bitmap from 1 to 0.
C24_AppendOnly ==
    [][last'.op \in {"read", "write"} =>
         /\ \A s \in TableSegments(physical_memory) :
                PMGet(physical_memory', s, 0) = physical_memory[s]
         /\ \A i \in PageWords(physical_memory) :
                PMGet(physical_memory', i, 0) = physical_memory[i]
         /\ \A row \in 0..(BM_SIZE - 1) : bit_map[row] \subseteq bit_map'[row]
      ]_vars

\* a write that allocated a page beside a table and a page already there
C24_Witness ==
    /\ LastIs(last, "write") /\ last.valid /\ last.retries = 1
    /\ Cardinality(TableSegments(physical_memory)) >= 1
    /\ Cardinality(PageWords(physical_memory)) >= 2

---------------------------------------------------------------------------
(* Replay after clear().  A cleared system and a fresh one differ at most  *)
(* in bit (0,0); every operation taken from a state (pm, bm) is compared   *)
(* with the same operation taken from (pm, bm with bit (0,0) set), so that *)
(* a trace replayed after clear() and the same trace on a fresh system     *)
(* stay equal in physical memory and output, step after step.              *)

Reserve(bm) == [bm EXCEPT ![0] = @ \cup {0}]

SameAsReserved(r) ==
    /\ r.pm = physical_memory'
    /\ r.bm = Reserve(bit_map')

SameOutput(r) ==
    /\ r.valid = last'.valid
    /\ r.tokens = last'.tokens
    /\ fault' \in {r.fault, "crash"}

\* C25: clear() leaves the physical memory of a fresh system and its bitmap
\* up to bit (0,0); from then on each preload, read and write gives the
\* output and the physical memory (ST and PT words) that it gives from the
\* same state with bit (0,0) set, and bitmaps that again differ at most in
\* bit (0,0).
C25_ReplayAfterClear ==
    [][/\ last'.op = "clear" =>
              /\ physical_memory' = FreshMemory
              /\ Reserve(bit_map') = FreshBitMap
       /\ last'.op = "create_page_table" =>
              \E r \in {create_page_table(physical_memory, Reserve(bit_map),
                                          last'.args[1], last'.args[2])} :
                  SameAsReserved(r)
       /\ last'.op = "create_page" =>
              \E g \in Garbage :
                  \E r \in {create_page(physical_memory, Reserve(bit_map),
                                        last'.args[1], last'.args[2],
                                        last'.args[3], g)} :
                      SameAsReserved(r)
       /\ last'.op = "read" =>
              \E g \in Garbage :
                  \E r \in {read(physical_memory, Reserve(bit_map), cache,
                                 last'.args[1], FALSE, g)} :
                      SameAsReserved(r) /\ SameOutput(r)
       /\ last'.op = "write" =>
              \E g \in Garbage :
                  \E r \in {write(physical_memory, Reserve(bit_map), cache,
                                  last'.args[1], FALSE, g)} :
                      SameAsReserved(r) /\ SameOutput(r)
      ]_vars

\* after clear(), a write that allocated a page table and a page
C25_Witness ==
    /\ 0 \notin bit_map[0]
    /\ LastIs(last, "write") /\ last.valid /\ last.retries = 2

\* C30: create_page_table(s, -1) sets ST[s] = -1 and create_page(p, s, -1)
\* sets PT[s,p] = -1, and neither changes a bit of the bitmap.
C30_InvalidPreloadClaimsNoFrame ==
    [][/\ (last'.op = "create_page_table" /\ last'.args[2] = -1) =>
              /\ STof(physical_memory', last'.args[1]) = -1
              /\ bit_map' = bit_map
       /\ (last'.op = "create_page" /\ last'.args[3] = -1) =>
              /\ PTof(physical_memory', last'.args[2], last'.args[1]) = -1
              /\ bit_map' = bit_map
      ]_vars

---------------------------------------------------------------------------
(* The preload of one page table and one page on a fresh system:           *)
(* create_page_table(s, a), then create_page(p, s, b), for every frame of  *)
(* physical memory but frame 0 and the first and last page of each half of *)
(* a page table.                                                           *)

PreloadAddresses == {k * FRAME_SIZE : k \in 1..(N_FRAMES - 1)}

PreloadPages == {0, FRAME_SIZE - 1, FRAME_SIZE, 2 * FRAME_SIZE - 1}

\* the first call, on the fresh system
FirstPageTable(s, a) ==
    /\ physical_memory = FreshMemory
    /\ CreatePageTable(s, a)

\* the call that follows it
FirstPage(p, s, b) ==
    /\ PageWords(physical_memory) = {}
    /\ CreatePage(p, s, b)

NextPreload ==
    \/ \E s \in Segments, a \in PreloadAddresses : FirstPageTable(s, a)
    \/ EndPageTableLine
    \/ \E p \in PreloadPages, s \in Segments, b \in PreloadAddresses :
           FirstPage(p, s, b)

SpecPreload == Init /\ [][NextPreload]_vars

\* the frames whose bit is set
SetFrames(bm) == {f \in 0..(N_FRAMES - 1) : BitOfFrame(bm, f)}

\* the frame holding address a
FrameOf(a) == a \div FRAME_SIZE

\* C26: on a fresh system create_page_table(s, a) gives ST[s] = a and sets
\* exactly the bits of frames a/512 and a/512 + 1 in addition; the
\* create_page(p, s, b) that follows gives get_page_table(s, p) = b, keeps
\* ST[s] = a and sets exactly the bit of frame b/512 in addition.
C26_PreloadRecordsAndMarks ==
    [][/\ last'.op = "create_page_table" =>
              /\ STof(physical_memory', last'.args[1]) = last'.args[2]
              /\ SetFrames(bit_map') =
                     SetFrames(bit_map) \cup {FrameOf(last'.args[2]),
                                              FrameOf(last'.args[2]) + 1}
       /\ last'.op = "create_page" =>
              /\ get_page_table(physical_memory', last'.args[2],
                                last'.args[1], 0) = last'.args[3]
              /\ STof(physical_memory', last'.args[2]) =
                     STof(physical_memory, last'.args[2])
              /\ SetFrames(bit_map') =
                     SetFrames(bit_map) \cup {FrameOf(last'.args[3])}
      ]_vars

---------------------------------------------------------------------------
(* The allocation of a page by a direct write.                             *)

\* the words of physical memory that differ between pm and qm
ChangedWords(pm, qm) ==
    {i \in DOMAIN pm \cup DOMAIN qm : PMGet(pm, i, 0) # PMGet(qm, i, 0)}

\* the positions of the bitmap that differ between bm and cm
ChangedBits(bm, cm) ==
    {pos \in Positions : (pos[2] \in bm[pos[1]]) # (pos[2] \in cm[pos[1]])}

\* C27: a direct write with ST[s] > 0 and PT[s,p] = 0, when find_first_zero
\* returns a position, stores the base address of that frame in PT[s,p],
\* turns exactly that bit from 0 to 1 and changes no other word of physical
\* memory.
C27_WriteAllocatesOnePage ==
    [][LET a == Decoded[last'.args[1]]
       IN  (/\ LastIs(last', "write")
            /\ STof(physical_memory, a.s) > 0
            /\ PTDefined(physical_memory, a.s, a.p)
            /\ PTof(physical_memory, a.s, a.p) = 0) =>
             \E location \in {find_first_zero(bit_map)} :
                 location.kind = "ok" =>
                   /\ PTof(physical_memory', a.s, a.p) =
                        (location.index * WIDTH + location.bit) * FRAME_SIZE
                   /\ ChangedBits(bit_map, bit_map') =
                        {<<location.index, location.bit>>}
                   /\ location.bit \in bit_map'[location.index]
                   /\ ChangedWords(physical_memory, physical_memory') =
                        {STof(physical_memory, a.s) + a.p}
                   /\ last'.retries = 1
      ]_vars

\* a write that allocated the page of an existing page table in the first
\* free frame, after the frames of the layout and before a free one
C27_Witness ==
    /\ LastIs(last, "write") /\ last.valid /\ last.retries = 1
    /\ fault = "none"
    /\ PTof(physical_memory, Decoded[last.args[1]].s,
            Decoded[last.args[1]].p) = 4 * FRAME_SIZE
    /\ ~BitOfFrame(bit_map, 5)

\* C28: a direct write that returns, made with ST[s] = -1 or with the word
\* PT[s,p] = -1, prints pf, makes no allocation retry and leaves physical
\* memory and the bitmap as they were, whatever the other entry is.
C28_WriteFaultAllocatesNothing ==
    [][LET a == Decoded[last'.args[1]]
       IN  (/\ LastIs(last', "write") /\ fault' = "none"
            /\ \/ STof(physical_memory, a.s) = -1
               \/ /\ PTDefined(physical_memory, a.s, a.p)
                  /\ PTof(physical_memory, a.s, a.p) = -1) =>
             /\ ~last'.valid
             /\ last'.tokens = <<"pf", " ">>
             /\ last'.retries = 0
             /\ physical_memory' = physical_memory
             /\ bit_map' = bit_map
      ]_vars

\* a write printed pf where ST[s] was st and the word PT[s,p] was pt
PageFaultOn(st, pt) ==
    /\ LastIs(last, "write") /\ ~last.valid /\ fault = "none"
    /\ last.tokens = <<"pf", " ">>
    /\ STof(physical_memory, Decoded[last.args[1]].s) = st
    /\ PTDefined(physical_memory, Decoded[last.args[1]].s,
                 Decoded[last.args[1]].p)
    /\ PTof(physical_memory, Decoded[last.args[1]].s,
            Decoded[last.args[1]].p) = pt

\* the segment is invalid and the word read as its page entry is 0
C28_Witness == PageFaultOn(-1, 0)

---------------------------------------------------------------------------
(* The order of the search for a page table's pair of frames.              *)

\* C29: the position find_consecutive_zeros returns is the raster-first one
\* at or after (0,1) that is zero together with its raster-next bit: no
\* such position comes before it.
C29_ConsecutiveZerosAreFirst ==
    [][(last'.op = "find_consecutive_zeros" /\ last'.valid) =>
         \A c \in AdjacentZeros(bit_map) :
             Raster(last'.tokens) <= Raster(c)
      ]_vars

\* the search passed a lone zero at (0,1) and returned a pair of zeros
\* that spans two rows
C29_Witness ==
    /\ last.op = "find_consecutive_zeros" /\ last.valid /\ ~ub
    /\ IsZero(bit_map, <<0, 1>>) /\ ~IsZero(bit_map, <<0, 2>>)
    /\ last.tokens = <<1, WIDTH - 1>>

---------------------------------------------------------------------------
(* main(): start() on a system constructed for the direct run, then        *)
(* start() on a system constructed anew for the TLB run.  Each of the      *)
(* three loops `while (processor)` of main.cpp makes one more iteration    *)
(* after the last record of its line: the extraction fails there and the   *)
(* call is made with the indeterminate contents of the loop's variables,   *)
(* drawn here from the values of the records.                              *)

\* process_page_table_line: the iteration after the last pair
LastPageTableIteration(segment, address) ==
    /\ Running /\ phase = "pt"
    /\ \E r \in {create_page_table(physical_memory, bit_map, segment,
                                    address)} :
           \E crash \in CrashFor(r) :
             /\ physical_memory' = r.pm
             /\ bit_map' = r.bm
             /\ ub' = (ub \/ r.ub)
             /\ fault' = Outcome("none", r.ub, crash)
             /\ last' = [NoOperation EXCEPT !.op = "create_page_table",
                                            !.args = <<segment, address>>]
    /\ phase' = "page"
    /\ UNCHANGED <<cache, use_tlb, va, recency>>

\* process_page_line: the iteration after the last triple
LastPageIteration(page, segment, address) ==
    /\ Running /\ phase = "page"
    /\ \E g \in GarbageFor(create_page(physical_memory, bit_map, page,
                                        segment, address, NoGarbage)) :
         \E r \in {create_page(physical_memory, bit_map, page, segment,
                                address, g)} :
             \E crash \in CrashFor(r) :
             /\ physical_memory' = r.pm
             /\ bit_map' = r.bm
             /\ ub' = (ub \/ r.ub)
             /\ fault' = Outcome("none", r.ub, crash)
             /\ last' = [NoOperation EXCEPT !.op = "create_page",
                                            !.args = <<page, segment, address>>]
    /\ phase' = "run"
    /\ UNCHANGED <<cache, use_tlb, va, recency>>

\* the switch of process_action_file: case 0, case 1, default
ActionNames == [i \in {0, 1} |-> IF i = 0 THEN "read" ELSE "write"]

\* process_action_file: the iteration after the last record
LastActionIteration(action, address) ==
    /\ Running /\ phase = "run" /\ LruInRange
    /\ phase' = "end"
    /\ UNCHANGED <<use_tlb, va, recency>>
    /\ IF action \notin {0, 1}
       THEN /\ last' = NoOperation
            /\ UNCHANGED <<physical_memory, bit_map, cache, fault, ub>>
       ELSE \E g \in GarbageFor(IF action = 0
                                THEN read(physical_memory, bit_map, cache,
                                          address, use_tlb, NoGarbage)
                                ELSE write(physical_memory, bit_map, cache,
                                           address, use_tlb, NoGarbage)) :
              \E r \in {IF action = 0
                        THEN read(physical_memory, bit_map, cache, address,
                                  use_tlb, g)
                        ELSE write(physical_memory, bit_map, cache, address,
                                   use_tlb, g)} :
                \E crash \in CrashFor(r) :
                  /\ physical_memory' = r.pm
                  /\ bit_map' = r.bm
                  /\ cache' = r.cache
                  /\ ub' = (ub \/ r.ub)
                  /\ fault' = Outcome(r.fault, r.ub, crash)
                  /\ last' = [op |-> ActionNames[action],
                              args |-> <<address>>, tokens |-> r.tokens,
                              valid |-> r.valid, retries |-> r.retries,
                              path |-> r.path]

\* main without `system = VirtualMemorySystem{}` before the second start()
SecondRunKeepingSystem ==
    /\ Running /\ phase = "end" /\ ~use_tlb
    /\ use_tlb' = TRUE
    /\ phase' = "pt"
    /\ last' = [NoOperation EXCEPT !.op = "construct"]
    /\ UNCHANGED <<physical_memory, bit_map, cache, fault, ub, va, recency>>

\* main: system = VirtualMemorySystem{}; start(..., true)
SecondRun ==
    /\ Running /\ phase = "end" /\ ~use_tlb
    /\ physical_memory' = FreshMemory
    /\ bit_map' = FreshBitMap
    /\ cache' = init_cache
    /\ use_tlb' = TRUE
    /\ phase' = "pt"
    /\ last' = [NoOperation EXCEPT !.op = "construct"]
    /\ UNCHANGED <<fault, ub, va, recency>>

\* the addresses of the action file given to main: page 0 of each segment
MainAddresses ==
    {MakeAddress(v[1], s, 0, v[2]) : v \in Variants, s \in Segments}

NextMain ==
    \/ \E s \in Segments, a \in TableAddresses : CreatePageTable(s, a)
    \/ \E s \in Segments, a \in TableAddresses : LastPageTableIteration(s, a)
    \/ \E p \in LayoutPages, s \in Segments, a \in PageAddresses :
           CreatePage(p, s, a)
    \/ \E p \in LayoutPages, s \in Segments, a \in PageAddresses :
           LastPageIteration(p, s, a)
    \/ \E a \in MainAddresses : Read(a)
    \/ \E a \in MainAddresses : Write(a)
    \/ \E action \in {0, 1, 2}, a \in MainAddresses :
           LastActionIteration(action, a)
    \/ SecondRun

SpecMain == Init /\ [][NextMain]_vars

\* a freshly constructed system: physical memory all 0, only bit (0,0)
\* set, every TLB slot unused
FreshSystem ==
    /\ \A i \in DOMAIN physical_memory : physical_memory[i] = 0
    /\ \A c \in Positions : ~IsZero(bit_map, c) <=> c = <<0, 0>>
    /\ \A i \in Slots : cache[i].sp = -1

\* the calls of one run come in the order of start()
CallsInOrder ==
    /\ last'.op = "create_page_table" => phase = "pt"
    /\ last'.op = "create_page" => phase = "page"
    /\ last'.op \in {"read", "write"} => phase = "run"
    /\ phase' # phase =>
           <<phase, phase'>> \in {<<"pt", "page">>, <<"page", "run">>,
                                  <<"run", "end">>, <<"end", "pt">>}

\* the direct run comes first, the TLB run second, each on a fresh system
TwoRuns ==
    /\ phase # "end" => use_tlb' = use_tlb
    /\ phase = "end" => (~use_tlb /\ use_tlb' /\ phase' = "pt" /\ FreshSystem')

\* C31: main makes two runs, the first with use_tlb = false and the second
\* with use_tlb = true, each starting on a freshly constructed system, and
\* in each run the create_page_table calls come first, then the create_page
\* calls, then the reads and writes.
C31_TwoRunsInOrder ==
    /\ (FreshSystem /\ ~use_tlb /\ phase = "pt")
    /\ [][CallsInOrder /\ TwoRuns]_vars

\* the second run reached its actions: a read went through the TLB, in a
\* system whose tables were filled by this run
C31_Witness ==
    /\ use_tlb /\ phase = "run" /\ fault = "none"
    /\ last.op = "read" /\ last.path # "direct" /\ last.valid

---------------------------------------------------------------------------
(* What a direct read or write depends on.                                 *)

\* physical memory holding ST[s] and, when ST[s] > 0, the page-table word
\* PM[ST[s] + p] as pm holds them, and 0 everywhere else
OnlyEntriesOf(pm, s, p) ==
    LET st == PMGet(pm, s, 0)
        kept == {s} \cup (IF st > 0 THEN {st + p} ELSE {})
    IN  [i \in kept \cap DOMAIN pm |-> pm[i]]

\* the result r is the outcome of the step taken: token and allocations
SameOutcome(r) ==
    /\ r.valid = last'.valid
    /\ r.tokens = last'.tokens
    /\ r.retries = last'.retries

\* C32: a direct read or write of an address with fields (s,p) gives the
\* token and makes the allocation retries that it gives in the state that
\* agrees on ST[s] and, when ST[s] > 0, on PM[ST[s] + p], and holds 0 in
\* every other word.
C32_OutcomeDependsOnOwnEntries ==
    [][/\ (LastIs(last', "read") /\ fault' = "none") =>
            \E r \in {read(OnlyEntriesOf(physical_memory,
                                         Decoded[last'.args[1]].s,
                                         Decoded[last'.args[1]].p),
                           bit_map, cache, last'.args[1], FALSE, NoGarbage)} :
                SameOutcome(r)
       /\ (LastIs(last', "write") /\ fault' = "none") =>
            \E r \in {write(OnlyEntriesOf(physical_memory,
                                          Decoded[last'.args[1]].s,
                                          Decoded[last'.args[1]].p),
                            bit_map, cache, last'.args[1], FALSE, NoGarbage)} :
                SameOutcome(r)
      ]_vars

\* C33: the word PM[ST[s] + p] that a read or a write of an address with
\* fields (s,p) accesses through get_page_table lies inside the physical
\* array, before the operation and after the allocations it made.
C33_PageTableAccessInsideMemory ==
    [][last'.op \in {"read", "write"} =>
         /\ PTDefined(physical_memory, Decoded[last'.args[1]].s,
                      Decoded[last'.args[1]].p)
         /\ PTDefined(physical_memory', Decoded[last'.args[1]].s,
                      Decoded[last'.args[1]].p)
      ]_vars

---------------------------------------------------------------------------
(* Demand allocation alone: reads and writes on a fresh system, without a  *)
(* layout, until no frame is left.                                         *)

InitDemand ==
    /\ physical_memory = FreshMemory
    /\ bit_map = FreshBitMap
    /\ cache = init_cache
    /\ use_tlb = FALSE
    /\ phase = "run"
    /\ fault = "none"
    /\ ub = FALSE
    /\ last = NoOperation
    /\ va = <<>>
    /\ recency = <<>>

NextDemand ==
    \/ \E a \in DemandAddresses : Read(a)
    \/ \E a \in DemandAddresses : Write(a)

SpecDemand == InitDemand /\ [][NextDemand]_vars

\* the allocated structures: the segment table, the page table of each
\* segment with ST[s] > 0, the page of each word PT[s,p] > 0
Structures(pm) ==
    {<<"ST", 0>>} \cup {<<"PT", s>> : s \in TableSegments(pm)}
                  \cup {<<"page", i>> : i \in PageWords(pm)}

\* the frames of a structure
FramesOf(pm, x) ==
    IF x[1] = "ST" THEN {0}
    ELSE IF x[1] = "PT" THEN {FrameOf(pm[x[2]]), FrameOf(pm[x[2]]) + 1}
    ELSE {FrameOf(pm[x[2]])}

\* C34: the frames of the segment table, of the page tables (two each) and
\* of the pages (one each) are pairwise disjoint.
C34_StructuresShareNoFrame ==
    \A x \in Structures(physical_memory) :
        \A y \in Structures(physical_memory) \ {x} :
            FramesOf(physical_memory, x) \cap FramesOf(physical_memory, y) = {}

\* two page tables and three pages were allocated by writes
C34_Witness ==
    /\ fault = "none" /\ last.op = "write" /\ last.valid
    /\ Cardinality(TableSegments(physical_memory)) = 2
    /\ Cardinality(PageWords(physical_memory)) >= 3

\* C35: every word a write stores is the base of a frame other than frame
\* 0 that fits in physical memory with what it holds: a page table (a word
\* of the segment table) with its two frames, a page with its one frame.
C35_AllocatedAddressesFit ==
    [][LastIs(last', "write") =>
         \A i \in ChangedWords(physical_memory, physical_memory') :
             \E b \in {PMGet(physical_memory', i, 0)} :
                 /\ b % FRAME_SIZE = 0
                 /\ FRAME_SIZE <= b
                 /\ IF i < FRAME_SIZE
                    THEN b + 2 * FRAME_SIZE <= PM_SIZE
                    ELSE b + FRAME_SIZE <= PM_SIZE
      ]_vars

\* C36: a write that ends with the allocation-exhausted error (and made no
\* access outside an array) leaves physical memory, the bitmap and the TLB
\* as they were before it.
C36_ExhaustedWriteIsAtomic ==
    [][(last'.op = "write" /\ fault' = "MemoryException" /\ ~ub') =>
         /\ physical_memory' = physical_memory
         /\ bit_map' = bit_map
         /\ cache' = cache
      ]_vars

---------------------------------------------------------------------------
(* The TLB and the tables.  A system is used in either mode and cleared at *)
(* any point; clear() leaves the member tlb as it is.                      *)

NextReuse ==
    \/ \E s \in Segments, a \in TableAddresses : CreatePageTable(s, a)
    \/ EndPageTableLine
    \/ \E p \in LayoutPages, s \in Segments, a \in PageAddresses :
           CreatePage(p, s, a)
    \/ EndPageLine
    \/ \E a \in MainAddresses : Read(a)
    \/ \E a \in MainAddresses : Write(a)
    \/ Clear

SpecReuse == InitRuns /\ [][NextReuse]_vars

\* the segment and the page of a TLB key s * 1024 + p
KeySegment(sp) == sp \div (2^PAGE_BITS)

KeyPage(sp) == sp % (2^PAGE_BITS)

\* the entry of slot i is backed by the segment and page tables
Backed(pm, e) ==
    /\ STof(pm, KeySegment(e.sp)) > 0
    /\ PTof(pm, KeySegment(e.sp), KeyPage(e.sp)) = e.f

\* C37: every occupied TLB entry with key s * 1024 + p and frame f has
\* ST[s] > 0 and PM[ST[s] + p] = f.
C37_TLBCoherence ==
    \A i \in Slots : cache[i].sp # -1 => Backed(physical_memory, cache[i])

---------------------------------------------------------------------------
(* The TLB run against the direct run.  Both start on a fresh system with  *)
(* the same layout; each action of the TLB run is compared with the same   *)
(* action taken on the direct path from the same physical memory and       *)
(* bitmap, so that the two runs stay equal in physical memory, bitmap and  *)
(* output, action after action.                                            *)

\* the direct result d is what the step of the TLB run did and printed
\* after its marker, and the step ended as d ends
SameAsDirect(d) ==
    /\ physical_memory' = d.pm
    /\ bit_map' = d.bm
    /\ fault' \in {d.fault} \cup (IF d.ub THEN {"crash"} ELSE {})
    /\ fault' = "none" =>
           /\ last'.valid = d.valid
           /\ Tail(last'.tokens) = d.tokens

\* C38: an action of the TLB run prints, after its marker, the tokens that
\* the same action prints on the direct path, ends as it ends there, and
\* leaves the physical memory and the bitmap that it leaves there.
C38_TLBIsTransparent ==
    [][(use_tlb /\ last'.op \in {"read", "write"}) =>
         \E g \in Garbage :
             \E d \in {IF last'.op = "read"
                       THEN read_no_tlb(physical_memory, bit_map,
                                        Decoded[last'.args[1]], g)
                       ELSE write_no_tlb(physical_memory, bit_map,
                                         Decoded[last'.args[1]], g)} :
                 SameAsDirect(d)
      ]_vars

---------------------------------------------------------------------------
(* The keys of the TLB.                                                    *)

\* the slots that hold a key
Occupied(c) == {i \in Slots : c[i].sp # -1}

\* C39: in TLB mode no two occupied slots hold the same key, and no decoded
\* key is matched by hit_index in an unused slot.
C39_KeysAreUnique ==
    use_tlb =>
        /\ \A i \in Occupied(cache) :
               \A j \in Occupied(cache) \ {i} : cache[i].sp # cache[j].sp
        /\ \A a \in RunAddresses :
               hit_index(cache, Decoded[a].sp) \notin Slots \ Occupied(cache)

\* a key was looked up and missed while another key held a slot and the
\* slot after it was unused
C39_Witness ==
    /\ use_tlb /\ ~ub /\ fault = "none"
    /\ last.op = "read" /\ last.path = "miss" /\ ~last.valid
    /\ 0 \in Occupied(cache) /\ 1 \notin Occupied(cache)
    /\ cache[0].sp # Decoded[last.args[1]].sp

============================================================================
